---- MODULE Spec2Model ----
(***************************************************************************)
(* Order / system / checklist lifecycle of the buildroom workflow backend. *)
(*                                                                         *)
(* The state is the relational store declared by database/init.sql (the    *)
(* orders, systems, system_checklists and checklist_completions tables)    *)
(* together with the request being served by the /api/orders router and    *)
(* the response it produced.  The handlers of controllers/orderController  *)
(* are translated as they are written: each builds a JSON response from    *)
(* the request and performs no query against the store.  Rows enter the    *)
(* orders and systems tables by SQL INSERT under the constraints and       *)
(* defaults of the DDL.  The checklist routes (routes/checklists.js) are   *)
(* required by index.js but their code is not part of the sources; their   *)
(* two operations are modelled from the specification.                     *)
(*                                                                         *)
(* Three specifications share the variables: Spec is the router over the   *)
(* store, SpecStore is the store under SQL statements (with activity_logs  *)
(* and inventory, whose foreign keys decide DELETE FROM orders), and       *)
(* SpecBoard is the Kanban board of the frontend (its clock, React state   *)
(* and pending getOrders promises).                                        *)
(***************************************************************************)
EXTENDS Integers, Sequences, FiniteSets, TLC

----------------------------------------------------------------------------
(* Bounds of the model *)

MaxOrders == 2

MaxSystems == 1

\* rows of activity_logs and of inventory
MaxLogs == 1

MaxInventory == 1

\* rows of system_checklists
MaxChecklists == 2

\* rows of checklist_steps
MaxSteps == 3

\* days of wall-clock time, and getOrders promises pending at once
MaxDays == 3

MaxFetches == 2

\* updateOrderStatus promises pending at once
MaxUpdates == 1

----------------------------------------------------------------------------
(* Values *)

NULL == "null"

\* the NULL of a nullable INTEGER foreign-key column (ids start at 1)
NoRef == 0

\* the exit code of a process that has not exited
NoExit == 0 - 1

\* a non-null TIMESTAMP value (CURRENT_TIMESTAMP / new Date())
STAMP == "ts"

\* parseInt of a string that does not start with a digit
NaN == 0 - 1

\* a body field that the request does not carry (undefined in JS)
ABSENT == "undefined"

Statuses == {"ordered", "in_progress", "qa_review", "ready_to_deliver", "complete"}

Roles == {"staff", "manager", "admin"}

DeliveryMethods == {"delivery", "shipping"}

----------------------------------------------------------------------------
(* Inputs enumerated by the model *)

IdParams == {"1", "2"}

StatusInputs == Statuses \cup {"bogus"}

WooInputs == {"WC-1", "WC-2"}

CreateStatusInputs == {ABSENT, "bogus"}

\* bodies of POST /api/orders: with or without a priority
CreateBodies ==
    [status : CreateStatusInputs, woo_order_id : WooInputs]
      \cup {[status |-> "bogus", woo_order_id |-> "WC-1", priority |-> 3]}

\* query strings of GET /api/orders
QueryInputs ==
    {[status |-> ABSENT, assigned_to |-> ABSENT, search |-> ABSENT],
     [status |-> "complete", assigned_to |-> "1", search |-> ABSENT],
     [status |-> ABSENT, assigned_to |-> "unassigned", search |-> "wc-1"],
     [status |-> "ordered", assigned_to |-> ABSENT, search |-> "DOE"]}

UserIdInputs == {0, 1}

PriorityInputs == {3, 6}

BulkInputs == {<< >>, <<1>>, <<1, 2>>, <<1, 3, 2>>}

----------------------------------------------------------------------------
(* Schema: defaults of the DDL *)

\* orders: status DEFAULT 'ordered', priority DEFAULT 0, assigned_to nullable
OrderDefaults == [status |-> "ordered", priority |-> 0, assigned_to |-> NULL]

\* systems.status declared with DEFAULT 'complete'
SystemDefaultsComplete == [status |-> "complete"]

\* systems: status DEFAULT 'pending'
SystemDefaults == [status |-> "pending"]

\* qa_checked_at declared with DEFAULT CURRENT_TIMESTAMP
CompletionDefaultsStamped == [completed_at |-> NULL, qa_checked_at |-> STAMP]

\* checklist_completions: completed_at / qa_checked_at have no DEFAULT
CompletionDefaults == [completed_at |-> NULL, qa_checked_at |-> NULL]

\* the checklist_steps rows of the one template as it is seeded: step 1 has
\* the column default requires_qa = false, step 2 requires QA
TemplateSteps ==
    {[id |-> 1, requires_qa |-> FALSE], [id |-> 2, requires_qa |-> TRUE]}

VARIABLES orders, systems, system_checklists, checklist_completions,
          activity_logs, inventory, checklist_steps, req, res,
          now, boardOrders, loading, fetches, dnd, updates, server

StepIds == {st.id : st \in checklist_steps}

store ==
    <<orders, systems, system_checklists, checklist_completions,
      activity_logs, inventory, checklist_steps>>

\* the board in the browser: the wall clock, the React state (orders,
\* loading) and the getOrders promises not yet settled
ui == <<now, boardOrders, loading, fetches, dnd, updates>>

vars ==
    <<orders, systems, system_checklists, checklist_completions,
      activity_logs, inventory, checklist_steps, req, res,
      now, boardOrders, loading, fetches, dnd, updates, server>>

----------------------------------------------------------------------------
(* Helpers *)

\* parseInt(id) of the path parameter
ParseInt(s) == CASE s = "1" -> 1 [] s = "2" -> 2 [] s = "3" -> 3 [] OTHER -> NaN

Init ==
    /\ orders = << >>
    /\ systems = << >>
    /\ system_checklists = << >>
    /\ checklist_completions = {}
    /\ activity_logs = << >>
    /\ inventory = << >>
    /\ checklist_steps = TemplateSteps
    /\ req = [op |-> "none"]
    /\ res = [code |-> 0]
    /\ now = 0
    /\ boardOrders = << >>
    /\ loading = TRUE
    /\ fetches = << >>
    /\ dnd = [id |-> NoRef, currentStatus |-> NULL, over |-> NULL]
    /\ updates = << >>
    /\ server = [pc |-> "authenticate", check |-> "pending",
                 NODE_ENV |-> ABSENT, listening |-> FALSE,
                 closing |-> FALSE, exit_code |-> NoExit]

----------------------------------------------------------------------------
(* The store: SQL INSERT under the DDL *)

\* what is left at position id of a table once the row is deleted: SERIAL
\* ids are not reused
Gone(id) == [id |-> id]

\* the ids of the rows present in each table
OrderIds == {i \in 1 .. Len(orders) : orders[i] # Gone(i)}

SystemIds == {i \in 1 .. Len(systems) : systems[i] # Gone(i)}

ChecklistIds ==
    {i \in 1 .. Len(system_checklists) : system_checklists[i] # Gone(i)}

\* INSERT INTO orders (woo_order_id, ...): SERIAL id, UNIQUE(woo_order_id),
\* the remaining columns take their defaults.  SQLSTATE 23505 is
\* unique_violation; the row is not inserted.
InsertOrder(woo) ==
    /\ Len(orders) < MaxOrders
    /\ req' = [op |-> "INSERT orders", woo_order_id |-> woo]
    /\ IF \E i \in OrderIds : orders[i].woo_order_id = woo
       THEN /\ res' = [code |-> 23505]
            /\ UNCHANGED orders
       ELSE /\ res' = [code |-> 0]
            /\ orders' = Append(orders,
                   [status |-> OrderDefaults.status,
                    priority |-> OrderDefaults.priority,
                    assigned_to |-> OrderDefaults.assigned_to,
                    id |-> Len(orders) + 1, woo_order_id |-> woo])
    /\ UNCHANGED <<systems, system_checklists, checklist_completions,
                   activity_logs, inventory, checklist_steps, ui, server>>

\* A system is created for an existing order (order_id REFERENCES orders)
\* and its checklist is instantiated from the template with it.
InsertSystem(order_id) ==
    /\ Len(systems) < MaxSystems
    /\ order_id \in OrderIds
    /\ systems' = Append(systems,
           [status |-> SystemDefaults.status,
            id |-> Len(systems) + 1, order_id |-> order_id])
    /\ system_checklists' = Append(system_checklists,
           [id |-> Len(system_checklists) + 1, system_id |-> Len(systems) + 1])
    /\ req' = [op |-> "INSERT systems", order_id |-> order_id]
    /\ res' = [code |-> 0]
    /\ UNCHANGED <<orders, checklist_completions, activity_logs, inventory,
                   checklist_steps, ui, server>>

----------------------------------------------------------------------------
(* Checklist completion (section 4.2 of the specification) *)

HasRow(rows, cl, st) ==
    \E r \in rows : r.system_checklist_id = cl /\ r.step_id = st

Row(rows, cl, st) ==
    CHOOSE r \in rows : r.system_checklist_id = cl /\ r.step_id = st

RequiresQa(st) == \E s \in checklist_steps : s.id = st /\ s.requires_qa

\* a step is done: completion timestamp, and QA timestamp when required
StepDone(rows, cl, st) ==
    /\ HasRow(rows, cl, st)
    /\ Row(rows, cl, st).completed_at # NULL
    /\ RequiresQa(st) => Row(rows, cl, st).qa_checked_at # NULL

AllStepsDone(rows, cl) == \A st \in StepIds : StepDone(rows, cl, st)

\* a plain INSERT of the completion row, whether or not the pair has one
UpsertInsertOnly(rows, cl, st, fields) ==
    rows \cup
      {[completed_at |-> fields.completed_at,
        qa_checked_at |-> CompletionDefaults.qa_checked_at,
        system_checklist_id |-> cl, step_id |-> st]}

\* INSERT ... ON CONFLICT (system_checklist_id, step_id) DO UPDATE
Upsert(rows, cl, st, fields) ==
    IF HasRow(rows, cl, st)
    THEN (rows \ {Row(rows, cl, st)}) \cup
         {[Row(rows, cl, st) EXCEPT !.completed_at = fields.completed_at]}
    ELSE rows \cup
         {[completed_at |-> fields.completed_at,
           qa_checked_at |-> CompletionDefaults.qa_checked_at,
           system_checklist_id |-> cl, step_id |-> st]}

\* the derived status of the system owning checklist cl
Derive(sys, rows, cl) ==
    [i \in DOMAIN sys |->
        IF i = system_checklists[cl].system_id /\ AllStepsDone(rows, cl)
        THEN [sys[i] EXCEPT !.status = "complete"]
        ELSE sys[i]]

CompleteStep(cl, st, qa_auth) ==
    /\ req' = [op |-> "completeStep", system_checklist_id |-> cl,
               step_id |-> st, qa_auth |-> qa_auth]
    /\ IF cl \notin ChecklistIds \/ st \notin StepIds
       THEN /\ res' = [code |-> 404]
            /\ UNCHANGED <<systems, checklist_completions>>
       ELSE LET rows == Upsert(checklist_completions, cl, st,
                               [completed_at |-> STAMP])
            IN /\ checklist_completions' = rows
               /\ systems' = Derive(systems, rows, cl)
               /\ res' = [code |-> 200]
    /\ UNCHANGED <<orders, system_checklists, activity_logs, inventory,
                   checklist_steps, ui, server>>

QaCheck(cl, st, qa_auth) ==
    /\ req' = [op |-> "qaCheck", system_checklist_id |-> cl,
               step_id |-> st, qa_auth |-> qa_auth]
    /\ IF ~qa_auth
       THEN /\ res' = [code |-> 403]
            /\ UNCHANGED <<systems, checklist_completions>>
       ELSE IF ~HasRow(checklist_completions, cl, st)
       THEN /\ res' = [code |-> 404]
            /\ UNCHANGED <<systems, checklist_completions>>
       ELSE LET old == Row(checklist_completions, cl, st)
                rows == (checklist_completions \ {old}) \cup
                        {[old EXCEPT !.qa_checked_at = STAMP]}
            IN /\ checklist_completions' = rows
               /\ systems' = Derive(systems, rows, cl)
               /\ res' = [code |-> 200]
    /\ UNCHANGED <<orders, system_checklists, activity_logs, inventory,
                   checklist_steps, ui, server>>

----------------------------------------------------------------------------
(* The /api/orders router: authorize, validators, controller *)

GatedOps == {"assignOrder", "updatePriority", "bulkAssignOrders"}

\* the assign route registered with every role allowed
RouteRolesAssignOpen(op) ==
    CASE op = "assignOrder" -> Roles
      [] op = "updatePriority" -> {"manager", "admin"}
      [] op = "bulkAssignOrders" -> {"manager", "admin"}
      [] OTHER -> Roles

\* the roles given to authorize(...) on each role-gated route
RouteRoles(op) ==
    CASE op = "assignOrder" -> {"manager", "admin"}
      [] op = "updatePriority" -> {"manager", "admin"}
      [] op = "bulkAssignOrders" -> {"manager", "admin"}
      [] OTHER -> Roles

\* authorize(roles): the request passes when the actor's role is listed
Authorize(roles, role) == role \in roles

\* what the express-validator chains of the route record on the request:
\* TRUE when some chain found an error.  A chain records its result and
\* calls next(); it does not answer the request.
ValidationErrors(op, body) ==
    CASE op = "createOrder" -> body.woo_order_id = ""
      [] op = "updateOrderStatus" -> body.status \notin Statuses
      [] op = "assignOrder" -> body.user_id < 1
      [] op = "updatePriority" -> body.priority < 0 \/ body.priority > 5
      [] op = "bulkAssignOrders" -> Len(body.order_ids) < 1 \/ body.user_id < 1
      [] OTHER -> FALSE

\* The response of one request to the router.  The validation-result
\* middleware is registered with router.use after every route, so it is
\* reached only when a handler calls next(); the controllers answer the
\* request themselves and the recorded errors are never read.
Serve(op, role, id, body, answer) ==
    /\ req' = [id |-> id, op |-> op, role |-> role, body |-> body,
               errors |-> ValidationErrors(op, body)]
    /\ res' = IF op \in GatedOps /\ ~Authorize(RouteRoles(op), role)
              THEN [code |-> 403, body |-> [error |-> "Forbidden"]]
              ELSE answer

MockOrder ==
    [status |-> "ordered", priority |-> 1, assigned_to |-> NULL,
     id |-> 1, systems |-> << >>, woo_order_id |-> "WC-1001",
     customer_name |-> "John Doe", customer_department |-> "Engineering"]

\* const { status, assigned_to, search } = req.query is read and not used
GetOrders(role, query) ==
    /\ req' = [id |-> ABSENT, op |-> "getOrders", role |-> role,
               body |-> [none |-> ABSENT], errors |-> FALSE, query |-> query]
    /\ res' = [code |-> 200, body |-> <<MockOrder>>]
    /\ UNCHANGED <<store, ui, server>>

GetOrderById(role, id) ==
    /\ Serve("getOrderById", role, id, [none |-> ABSENT],
             [code |-> 200,
              body |-> [status |-> "ordered", id |-> ParseInt(id),
                        woo_order_id |-> "WC-1001"]])
    /\ UNCHANGED <<store, ui, server>>

\* { id: 1, ...orderData, created_at: new Date() }
\* (a key of a later operand of the spread replaces the same key of an
\* earlier one; in f @@ g the keys of f win)
CreateOrder(role, body) ==
    /\ Serve("createOrder", role, ABSENT, body,
             [code |-> 201,
              body |-> [created_at |-> STAMP] @@ body @@ [id |-> 1]])
    /\ UNCHANGED <<store, ui, server>>

\* position of a status on the board, left to right
StatusRank(status) ==
    CASE status = "ordered" -> 0
      [] status = "in_progress" -> 1
      [] status = "qa_review" -> 2
      [] status = "ready_to_deliver" -> 3
      [] OTHER -> 4

\* a handler that only lets an order move to the next column
UpdateOrderStatusLinear(role, id, body) ==
    /\ Serve("updateOrderStatus", role, id, body,
             IF /\ ParseInt(id) \in OrderIds
                /\ StatusRank(body.status)
                     # StatusRank(orders[ParseInt(id)].status) + 1
             THEN [code |-> 400, body |-> [error |-> "Invalid status transition"]]
             ELSE [code |-> 200,
                   body |-> [status |-> body.status, id |-> ParseInt(id),
                             updated_at |-> STAMP]])
    /\ UNCHANGED <<store, ui, server>>

UpdateOrderStatus(role, id, body) ==
    /\ Serve("updateOrderStatus", role, id, body,
             [code |-> 200,
              body |-> [status |-> body.status, id |-> ParseInt(id),
                        updated_at |-> STAMP]])
    /\ UNCHANGED <<store, ui, server>>

\* an assign handler that also moves the order to 'in_progress'
AssignOrderStartsWork(role, id, body) ==
    /\ Serve("assignOrder", role, id, body,
             [code |-> 200,
              body |-> [assigned_to |-> body.user_id, id |-> ParseInt(id),
                        updated_at |-> STAMP]])
    /\ orders' = [i \in DOMAIN orders |->
                     IF i = ParseInt(id) /\ i \in OrderIds
                     THEN [orders[i] EXCEPT !.status = "in_progress"]
                     ELSE orders[i]]
    /\ UNCHANGED <<systems, system_checklists, checklist_completions,
                   activity_logs, inventory, checklist_steps, ui, server>>

AssignOrder(role, id, body) ==
    /\ Serve("assignOrder", role, id, body,
             [code |-> 200,
              body |-> [assigned_to |-> body.user_id, id |-> ParseInt(id),
                        updated_at |-> STAMP]])
    /\ UNCHANGED <<store, ui, server>>

UpdatePriority(role, id, body) ==
    /\ Serve("updatePriority", role, id, body,
             [code |-> 200,
              body |-> [priority |-> body.priority, id |-> ParseInt(id),
                        updated_at |-> STAMP]])
    /\ UNCHANGED <<store, ui, server>>

GetOrderSystems(role, id) ==
    /\ Serve("getOrderSystems", role, id, [none |-> ABSENT],
             [code |-> 200, body |-> << >>])
    /\ UNCHANGED <<store, ui, server>>

CompleteOrder(role, id) ==
    /\ Serve("completeOrder", role, id, [none |-> ABSENT],
             [code |-> 200,
              body |-> [status |-> "complete", completed_at |-> STAMP,
                        id |-> ParseInt(id)]])
    /\ UNCHANGED <<store, ui, server>>

BulkAssignOrders(role, body) ==
    /\ Serve("bulkAssignOrders", role, ABSENT, body,
             [code |-> 200,
              body |-> [assigned_to |-> body.user_id,
                        order_ids |-> body.order_ids,
                        updated |-> Len(body.order_ids)]])
    /\ UNCHANGED <<store, ui, server>>

----------------------------------------------------------------------------

Next ==
    \/ \E woo \in WooInputs : InsertOrder(woo)
    \/ \E o \in 1 .. MaxOrders : InsertSystem(o)
    \/ \E cl \in 1 .. MaxSystems + 1, st \in StepIds, qa \in BOOLEAN :
           CompleteStep(cl, st, qa)
    \/ \E cl \in 1 .. MaxSystems + 1, st \in StepIds, qa \in BOOLEAN :
           QaCheck(cl, st, qa)
    \/ \E role \in Roles, query \in QueryInputs : GetOrders(role, query)
    \/ \E role \in Roles, id \in IdParams : GetOrderById(role, id)
    \/ \E role \in Roles, body \in CreateBodies : CreateOrder(role, body)
    \/ \E role \in Roles, id \in IdParams, status \in StatusInputs :
           UpdateOrderStatus(role, id, [status |-> status])
    \/ \E role \in Roles, id \in IdParams, user_id \in UserIdInputs :
           AssignOrder(role, id, [user_id |-> user_id])
    \/ \E role \in Roles, id \in IdParams, priority \in PriorityInputs :
           UpdatePriority(role, id, [priority |-> priority])
    \/ \E role \in Roles, id \in IdParams : GetOrderSystems(role, id)
    \/ \E role \in Roles, id \in IdParams : CompleteOrder(role, id)
    \/ \E role \in Roles, ids \in BulkInputs, user_id \in UserIdInputs :
           BulkAssignOrders(role, [user_id |-> user_id, order_ids |-> ids])

Spec == Init /\ [][Next]_vars

----------------------------------------------------------------------------
(* Vocabulary of the properties *)

\* the order addressed by the path parameter of the request
TargetId == ParseInt(req.id)

OwnedSystems(id) == {i \in SystemIds : systems[i].order_id = id}

SystemComplete(i) == systems[i].status = "complete"

\* the request asks to move an order to 'complete'
TransitionToComplete ==
    \/ req.op = "updateOrderStatus" /\ req.body.status = "complete"
    \/ req.op = "completeOrder"

\* the API answered that order id now has status 'complete'
ReportsComplete(id) ==
    /\ TransitionToComplete
    /\ res.code = 200
    /\ res.body.id = id
    /\ res.body.status = "complete"

QaStamped(rows, cl, st) ==
    HasRow(rows, cl, st) /\ Row(rows, cl, st).qa_checked_at # NULL

----------------------------------------------------------------------------
(* Properties *)

\* C1: an order whose status is 'complete' (stored, or reported by the
\* status patch or the mark-complete operation) has every one of its owned
\* systems complete.
C1_CompleteOrderHasCompleteSystems ==
    \A id \in OrderIds :
        (orders[id].status = "complete" \/ ReportsComplete(id))
            => \A i \in OwnedSystems(id) : SystemComplete(i)

\* C2: a status transition whose target equals the order's current status
\* fails (no 2xx answer), whatever the actor's role.
C2_SameStatusTransitionFails ==
    (/\ req.op = "updateOrderStatus"
     /\ TargetId \in OrderIds
     /\ req.body.status = orders[TargetId].status)
        => res.code >= 400

\* C3: a transition to 'complete' of an order that owns a system that is not
\* complete fails, and the order is not reported complete.
C3_CompleteBlockedByIncompleteSystem ==
    (/\ TransitionToComplete
     /\ TargetId \in OrderIds
     /\ \E i \in OwnedSystems(TargetId) : ~SystemComplete(i))
        => res.code >= 400 /\ ~ReportsComplete(TargetId)

C5_WorkerCompletionNeedsQaCheck ==
    /\ []((/\ req.op = "completeStep"
           /\ ~req.qa_auth
           /\ req.system_checklist_id \in ChecklistIds
           /\ RequiresQa(req.step_id))
             => res.code = 200)
    /\ [][/\ (/\ req'.op = "completeStep"
              /\ res'.code = 200
              /\ ~req'.qa_auth
              /\ RequiresQa(req'.step_id)
              /\ ~QaStamped(checklist_completions,
                            req'.system_checklist_id, req'.step_id))
             => /\ ~QaStamped(checklist_completions',
                              req'.system_checklist_id, req'.step_id)
                /\ ~StepDone(checklist_completions',
                             req'.system_checklist_id, req'.step_id)
                /\ systems'[system_checklists'[req'.system_checklist_id].system_id].status
                       # "complete"
          /\ checklist_completions' # checklist_completions =>
               \A cl \in ChecklistIds, st \in StepIds :
                 (/\ RequiresQa(st)
                  /\ ~StepDone(checklist_completions, cl, st)
                  /\ StepDone(checklist_completions', cl, st))
                   => /\ req'.op = "qaCheck"
                      /\ req'.qa_auth
                      /\ res'.code = 200
                      /\ req'.system_checklist_id = cl
                      /\ req'.step_id = st
         ]_vars

\* C5 witness: a worker without QA authority completed the QA-required step
C5_Witness ==
    /\ req.op = "completeStep"
    /\ res.code = 200
    /\ ~req.qa_auth
    /\ RequiresQa(req.step_id)
    /\ HasRow(checklist_completions, req.system_checklist_id, req.step_id)
    /\ Row(checklist_completions, req.system_checklist_id, req.step_id).completed_at
           # NULL
    /\ ~QaStamped(checklist_completions, req.system_checklist_id, req.step_id)

\* C6: for an order with one system (step 1 without QA, step 2 with QA), a
\* transition of the order to 'complete' succeeds exactly when step 1 is
\* completed, step 2 is completed and step 2 is QA-checked.
C6_CompleteSucceedsOnlyAfterAllThree ==
    (/\ TransitionToComplete
     /\ TargetId \in OrderIds
     /\ Cardinality(OwnedSystems(TargetId)) = 1)
        => \A cl \in ChecklistIds :
             system_checklists[cl].system_id \in OwnedSystems(TargetId)
               => (res.code = 200
                     <=> /\ HasRow(checklist_completions, cl, 1)
                         /\ HasRow(checklist_completions, cl, 2)
                         /\ QaStamped(checklist_completions, cl, 2))

\* C7: createOrder with an external reference id that an existing order
\* already has fails with a 409 conflict, and external reference ids are
\* unique across the stored orders.
C7_DuplicateExternalReferenceRejected ==
    /\ (/\ req.op = "createOrder"
        /\ \E i \in OrderIds : orders[i].woo_order_id = req.body.woo_order_id)
          => res.code = 409
    /\ \A i, j \in OrderIds :
          orders[i].woo_order_id = orders[j].woo_order_id => i = j

\* C8: bulk-assign (well-formed body, manager or admin actor) is
\* all-or-nothing: a list naming an order id that does not exist fails, and a
\* success answer is given only when every listed order is assigned to the
\* user.
C8_BulkAssignAllOrNothing ==
    (/\ req.op = "bulkAssignOrders"
     /\ Authorize(RouteRoles(req.op), req.role)
     /\ ~req.errors)
        => /\ (\E k \in DOMAIN req.body.order_ids :
                  req.body.order_ids[k] \notin OrderIds) => res.code >= 400
           /\ res.code = 200 =>
                \A k \in DOMAIN req.body.order_ids :
                    /\ req.body.order_ids[k] \in OrderIds
                    /\ orders[req.body.order_ids[k]].assigned_to # NULL
                    /\ orders[req.body.order_ids[k]].assigned_to = req.body.user_id

C10_StatusAlwaysCanonical ==
    /\ \A id \in OrderIds : orders[id].status \in Statuses
    /\ (/\ req.op \in {"createOrder", "updateOrderStatus", "completeOrder"}
        /\ res.code \in {200, 201}
        /\ res.body.status # ABSENT)
          => res.body.status \in Statuses

\* the statuses other than the terminal one
NonTerminal == Statuses \ {"complete"}

\* request r asks to change the status, priority or assigned user of order id
Mutates(r, id) ==
    \/ /\ r.op \in {"updateOrderStatus", "assignOrder", "updatePriority"}
       /\ ParseInt(r.id) = id
    \/ /\ r.op = "bulkAssignOrders"
       /\ \E k \in DOMAIN r.body.order_ids : r.body.order_ids[k] = id

\* the routes that carry express-validator chains
ValidatedOps ==
    {"createOrder", "updateOrderStatus", "assignOrder", "updatePriority",
     "bulkAssignOrders"}

\* C11: every stored priority is an integer in 0..5, and a setPriority
\* request (manager or admin) with a priority outside 0..5 is answered with a
\* 400 validation error instead of reaching the priority update.
C11_PriorityWithinRange ==
    /\ \A id \in OrderIds : orders[id].priority \in 0 .. 5
    /\ (/\ req.op = "updatePriority"
        /\ Authorize(RouteRoles(req.op), req.role)
        /\ req.body.priority \notin 0 .. 5)
          => res.code = 400

\* C12: once an order is complete (stored, or answered as complete by the
\* API), the next status transition, assign, bulk-assign or setPriority on
\* that order fails.
C12_CompleteIsTerminal ==
    [][(/\ TransitionToComplete
        /\ TargetId \in OrderIds
        /\ ReportsComplete(TargetId) \/ orders[TargetId].status = "complete"
        /\ Mutates(req', TargetId))
          => res'.code >= 400
      ]_vars

C15_ConcurrentTransitionsSerialized ==
    [][(/\ req.op = "updateOrderStatus"
        /\ res.code = 200
        /\ TargetId \in OrderIds
        /\ req'.op = "updateOrderStatus"
        /\ req'.id = req.id
        /\ req'.body.status = res.body.status)
          => res'.code >= 400
      ]_vars

\* C20: a request whose body fails the validators of its route is answered
\* with a 400 validation error (for a role-gated route: when the actor passes
\* authorize).
C20_InvalidBodyRejected ==
    (/\ req.op \in ValidatedOps
     /\ req.errors
     /\ Authorize(RouteRoles(req.op), req.role))
        => res.code = 400

\* C19: the order answered by createOrder has status 'ordered' and
\* priority 0, whatever status or priority the request body carries.
C19_CreatedOrderStartsOrdered ==
    (req.op = "createOrder" /\ res.code = 201)
        => /\ res.body.status = "ordered"
           /\ "priority" \in DOMAIN res.body
           /\ res.body.priority = 0

\* the characters of the strings that occur as order fields and search terms
Chars(s) ==
    CASE s = "WC-1001" -> <<"W", "C", "-", "1", "0", "0", "1">>
      [] s = "WC-1" -> <<"W", "C", "-", "1">>
      [] s = "WC-2" -> <<"W", "C", "-", "2">>
      [] s = "John Doe" -> <<"J", "o", "h", "n", " ", "D", "o", "e">>
      [] s = "Engineering" ->
             <<"E", "n", "g", "i", "n", "e", "e", "r", "i", "n", "g">>
      [] s = "wc-1" -> <<"w", "c", "-", "1">>
      [] s = "DOE" -> <<"D", "O", "E">>
      [] OTHER -> << >>

UpperCase ==
    <<"A", "B", "C", "D", "E", "F", "G", "H", "I", "J", "K", "L", "M",
      "N", "O", "P", "Q", "R", "S", "T", "U", "V", "W", "X", "Y", "Z">>

LowerCase ==
    <<"a", "b", "c", "d", "e", "f", "g", "h", "i", "j", "k", "l", "m",
      "n", "o", "p", "q", "r", "s", "t", "u", "v", "w", "x", "y", "z">>

\* String.prototype.toLowerCase, on a sequence of characters
ToLowerCase(cs) ==
    [i \in DOMAIN cs |->
        IF \E k \in DOMAIN UpperCase : UpperCase[k] = cs[i]
        THEN LowerCase[CHOOSE k \in DOMAIN UpperCase : UpperCase[k] = cs[i]]
        ELSE cs[i]]

\* String.prototype.includes, on sequences of characters
Includes(hay, needle) ==
    \E i \in 0 .. Len(hay) - Len(needle) :
        \A k \in 1 .. Len(needle) : hay[i + k] = needle[k]

\* field f of order o, lower-cased, contains the lower-cased search term;
\* a field the order does not carry matches nothing
FieldIncludes(o, f, search) ==
    /\ f \in DOMAIN o
    /\ Includes(ToLowerCase(Chars(o[f])), ToLowerCase(Chars(search)))

\* order o passes every filter the query supplies
Matches(o, query) ==
    /\ query.status # ABSENT => o.status = query.status
    /\ query.assigned_to = "unassigned" => o.assigned_to = NULL
    /\ query.assigned_to \notin {ABSENT, "unassigned"}
         => /\ o.assigned_to # NULL
            /\ o.assigned_to = ParseInt(query.assigned_to)
    /\ query.search # ABSENT
         => \/ FieldIncludes(o, "woo_order_id", query.search)
            \/ FieldIncludes(o, "customer_name", query.search)
            \/ FieldIncludes(o, "customer_department", query.search)

\* C17: the order list answers exactly the orders that pass all supplied
\* filters: every order answered passes them, and every stored order that
\* passes them is answered.
C17_ListReturnsExactlyMatching ==
    (req.op = "getOrders" /\ res.code = 200)
        => /\ \A k \in DOMAIN res.body : Matches(res.body[k], req.query)
           /\ \A id \in OrderIds :
                  Matches(orders[id], req.query)
                     => \E k \in DOMAIN res.body : res.body[k].id = id

----------------------------------------------------------------------------
(* The store under SQL statements of an administrator: the foreign keys of *)
(* the DDL decide what DELETE FROM orders does                             *)

\* INSERT INTO activity_logs (order_id, system_id, action): both references
\* are nullable and are checked against the parent tables (SQLSTATE 23503
\* is foreign_key_violation)
InsertLog(order_id, system_id) ==
    /\ Len(activity_logs) < MaxLogs
    /\ req' = [op |-> "INSERT activity_logs", order_id |-> order_id,
               system_id |-> system_id]
    /\ IF /\ order_id \in OrderIds \cup {NoRef}
          /\ system_id \in SystemIds \cup {NoRef}
       THEN /\ activity_logs' = Append(activity_logs,
                   [id |-> Len(activity_logs) + 1, order_id |-> order_id,
                    system_id |-> system_id, action |-> "status_change"])
            /\ res' = [code |-> 0]
       ELSE /\ res' = [code |-> 23503]
            /\ UNCHANGED activity_logs
    /\ UNCHANGED <<orders, systems, system_checklists, checklist_completions,
                   inventory, checklist_steps, ui, server>>

\* INSERT INTO inventory (serial_number, received_date, assigned_to_system)
InsertInventory(system_id) ==
    /\ Len(inventory) < MaxInventory
    /\ req' = [op |-> "INSERT inventory", system_id |-> system_id]
    /\ IF system_id \in SystemIds \cup {NoRef}
       THEN /\ inventory' = Append(inventory,
                   [id |-> Len(inventory) + 1,
                    assigned_to_system |-> system_id])
            /\ res' = [code |-> 0]
       ELSE /\ res' = [code |-> 23503]
            /\ UNCHANGED inventory
    /\ UNCHANGED <<orders, systems, system_checklists, checklist_completions,
                   activity_logs, checklist_steps, ui, server>>

\* the checklist instances of a set of systems
ChecklistsOf(sys) ==
    {c \in ChecklistIds : system_checklists[c].system_id \in sys}

\* a row outside the cascade refers to the order or to one of its systems:
\* activity_logs.order_id, activity_logs.system_id and
\* inventory.assigned_to_system are declared without ON DELETE, i.e. NO ACTION
Restricted(o) ==
    \/ \E k \in DOMAIN activity_logs :
           \/ activity_logs[k].order_id = o
           \/ activity_logs[k].system_id \in OwnedSystems(o)
    \/ \E k \in DOMAIN inventory :
           inventory[k].assigned_to_system \in OwnedSystems(o)

\* table t without the rows whose id is in ids
Without(t, ids) == [i \in DOMAIN t |-> IF i \in ids THEN Gone(i) ELSE t[i]]

\* DELETE FROM orders WHERE id = o.  ON DELETE CASCADE removes the systems of
\* the order, their checklist instances and the completions of these; a
\* referencing row outside the cascade fails the whole statement (23503).
DeleteOrder(o) ==
    /\ req' = [op |-> "DELETE orders", id |-> o]
    /\ IF o \notin OrderIds
       THEN /\ res' = [code |-> 0, rows |-> 0]
            /\ UNCHANGED <<orders, systems, system_checklists,
                           checklist_completions>>
       ELSE IF Restricted(o)
       THEN /\ res' = [code |-> 23503, rows |-> 0]
            /\ UNCHANGED <<orders, systems, system_checklists,
                           checklist_completions>>
       ELSE /\ res' = [code |-> 0, rows |-> 1]
            /\ orders' = Without(orders, {o})
            /\ systems' = Without(systems, OwnedSystems(o))
            /\ system_checklists' =
                   Without(system_checklists, ChecklistsOf(OwnedSystems(o)))
            /\ checklist_completions' =
                   {r \in checklist_completions :
                       r.system_checklist_id
                           \notin ChecklistsOf(OwnedSystems(o))}
    /\ UNCHANGED <<activity_logs, inventory, checklist_steps, ui, server>>

\* INSERT INTO system_checklists (system_id, template_id): system_id is
\* checked against systems; the table declares no UNIQUE(system_id)
InsertChecklist(system_id) ==
    /\ Len(system_checklists) < MaxChecklists
    /\ req' = [op |-> "INSERT system_checklists", system_id |-> system_id]
    /\ IF system_id \in SystemIds
       THEN /\ system_checklists' = Append(system_checklists,
                   [id |-> Len(system_checklists) + 1,
                    system_id |-> system_id])
            /\ res' = [code |-> 0]
       ELSE /\ res' = [code |-> 23503]
            /\ UNCHANGED system_checklists
    /\ UNCHANGED <<orders, systems, checklist_completions, activity_logs,
                   inventory, checklist_steps, ui, server>>

NextStore ==
    \/ \E woo \in WooInputs : InsertOrder(woo)
    \/ \E o \in 1 .. MaxOrders : InsertSystem(o)
    \/ \E sy \in 1 .. MaxSystems : InsertChecklist(sy)
    \/ \E cl \in 1 .. MaxChecklists, st \in StepIds :
           CompleteStep(cl, st, FALSE)
    \/ \E o \in 0 .. MaxOrders, sy \in 0 .. MaxSystems : InsertLog(o, sy)
    \/ \E sy \in 0 .. MaxSystems : InsertInventory(sy)
    \/ \E o \in 1 .. MaxOrders : DeleteOrder(o)

SpecStore == Init /\ [][NextStore]_vars

\* no system, checklist instance or completion refers to a deleted parent
NoDangling ==
    /\ \A i \in SystemIds : systems[i].order_id \in OrderIds
    /\ \A c \in ChecklistIds : system_checklists[c].system_id \in SystemIds
    /\ \A r \in checklist_completions : r.system_checklist_id \in ChecklistIds

\* C14: every successful status transition or assignment appends exactly
\* one activity-log entry in the same step, a failed request appends none,
\* and the entries already in the log are never changed or removed.
C14_MutationAppendsOneLogEntry ==
    [][/\ (req'.op \in {"updateOrderStatus", "assignOrder"} /\ res'.code = 200)
          => Len(activity_logs') = Len(activity_logs) + 1
       /\ res'.code >= 400 => activity_logs' = activity_logs
       /\ Len(activity_logs') >= Len(activity_logs)
       /\ \A k \in DOMAIN activity_logs : activity_logs'[k] = activity_logs[k]
      ]_vars

\* C16: deleting an existing order succeeds in every state and removes the
\* order with the systems, checklist instances and completions it owns; no
\* system, checklist instance or completion is left referring to a deleted
\* parent.
C16_DeleteOrderSucceedsAndCascades ==
    [][(req'.op = "DELETE orders" /\ req'.id \in OrderIds)
          => /\ res'.code = 0
             /\ req'.id \notin OrderIds'
             /\ NoDangling'
      ]_vars

----------------------------------------------------------------------------
(* The Kanban board (frontend/src/components/KanbanBoard.js)               *)

\* one step of the wall clock, in milliseconds
DayMs == 24 * 60 * 60 * 1000

\* const maxDuration = 48 * 60 * 60 * 1000; // 48 hours
maxDuration == 48 * 60 * 60 * 1000

\* the order orderService.getOrders resolves with: updated_at is
\* new Date() at the time of the call
ServiceOrder(t) ==
    [status |-> "ordered", priority |-> 1, assigned_to |-> NULL, id |-> 1,
     woo_order_id |-> "WC-1001", updated_at |-> t]

\* statusDuration > maxDuration && order.status !== 'complete', with
\* statusDuration = new Date() - new Date(order.updated_at)
CheckUrgentIssues(order) ==
    now - order.updated_at > maxDuration /\ order.status # "complete"

\* { ...order, isAssignedToMe, hasUrgentIssue }: assigned_to is null in the
\* data of the service, so order.assigned_to?.id === user.id is false
WithFlags(order) ==
    [isAssignedToMe |-> FALSE, hasUrgentIssue |-> CheckUrgentIssues(order)]
       @@ order

\* the sequence without its k-th element
RemoveAt(s, k) == SubSeq(s, 1, k - 1) \o SubSeq(s, k + 1, Len(s))

\* the promise of a getOrders call made now, with the way the service will
\* settle it: resolved with the data of the call, or rejected
Pending(ok) ==
    IF ok THEN [ok |-> TRUE, data |-> <<ServiceOrder(now)>>]
    ELSE [ok |-> FALSE, data |-> << >>]

\* fetchOrders up to its await: called on mount, by the 30 s interval, by
\* Refresh, by the dialog and after a drop; the promise of getOrders is
\* pending
FetchOrders(ok) ==
    /\ Len(fetches) < MaxFetches
    /\ fetches' = Append(fetches, Pending(ok))
    /\ UNCHANGED <<store, server, req, res, now, boardOrders, loading, dnd,
                   updates>>

\* a fetchOrders whose catch branch empties the orders
FetchOrdersResumeClears(k) ==
    /\ k \in DOMAIN fetches
    /\ boardOrders' =
          IF fetches[k].ok
          THEN [i \in DOMAIN fetches[k].data |-> WithFlags(fetches[k].data[i])]
          ELSE << >>
    /\ loading' = FALSE
    /\ fetches' = RemoveAt(fetches, k)
    /\ UNCHANGED <<store, server, req, res, now, dnd, updates>>

\* fetchOrders after its await, for whichever pending call settles: on
\* success the flags are computed with the clock of this moment and put in
\* the React state with the orders, on failure the error is logged; finally
\* setLoading(false)
FetchOrdersResume(k) ==
    /\ k \in DOMAIN fetches
    /\ boardOrders' =
          IF fetches[k].ok
          THEN [i \in DOMAIN fetches[k].data |-> WithFlags(fetches[k].data[i])]
          ELSE boardOrders
    /\ loading' = FALSE
    /\ fetches' = RemoveAt(fetches, k)
    /\ UNCHANGED <<store, server, req, res, now, dnd, updates>>

\* time passes; nothing of the component runs
Tick ==
    /\ now + DayMs <= MaxDays * DayMs
    /\ now' = now + DayMs
    /\ UNCHANGED <<store, server, req, res, boardOrders, loading, fetches,
                   dnd, updates>>

\* nothing is being dragged
NoDrag == [id |-> NoRef, currentStatus |-> NULL, over |-> NULL]

\* a card is picked up: the item is { id, currentStatus } as the card's
\* useDrag built it; cards are rendered once loading is false
BeginDrag(id, currentStatus) ==
    /\ ~loading
    /\ dnd = NoDrag
    /\ \E k \in DOMAIN boardOrders : boardOrders[k].id = id
    /\ dnd' = [id |-> id, currentStatus |-> currentStatus, over |-> NULL]
    /\ UNCHANGED <<store, server, req, res, now, boardOrders, loading,
                   fetches, updates>>

\* the dragged card is moved over the column of a status (monitor.isOver)
Hover(column) ==
    /\ dnd # NoDrag
    /\ dnd.over # column
    /\ dnd' = [dnd EXCEPT !.over = column]
    /\ UNCHANGED <<store, server, req, res, now, boardOrders, loading,
                   fetches, updates>>

\* a column that hands every drop to onOrderDrop
DropAlwaysUpdates(ok) ==
    /\ dnd # NoDrag
    /\ dnd.over # NULL
    /\ Len(updates) < MaxUpdates
    /\ updates' = Append(updates, [orderId |-> dnd.id, status |-> dnd.over,
                                   ok |-> ok])
    /\ dnd' = NoDrag
    /\ UNCHANGED <<store, server, req, res, now, boardOrders, loading,
                   fetches>>

\* the card is released over a column: drop(item) of KanbanColumn and, for a
\* column of another status, handleOrderDrop up to its await; ok is the way
\* the service will settle the updateOrderStatus promise
Drop(ok) ==
    /\ dnd # NoDrag
    /\ dnd.over # NULL
    /\ IF dnd.currentStatus # dnd.over
       THEN /\ Len(updates) < MaxUpdates
            /\ updates' = Append(updates, [orderId |-> dnd.id,
                                           status |-> dnd.over, ok |-> ok])
       ELSE UNCHANGED updates
    /\ dnd' = NoDrag
    /\ UNCHANGED <<store, server, req, res, now, boardOrders, loading,
                   fetches>>

\* a handleOrderDrop that refreshes the board in its catch branch too
HandleOrderDropResumeRefreshes(k, fetchOk) ==
    /\ k \in DOMAIN updates
    /\ Len(fetches) < MaxFetches
    /\ fetches' = Append(fetches, Pending(fetchOk))
    /\ updates' = RemoveAt(updates, k)
    /\ UNCHANGED <<store, server, req, res, now, boardOrders, loading, dnd>>

\* handleOrderDrop after its await, for whichever pending call settles:
\* fetchOrders() is called when the promise resolved, the error is logged
\* when it rejected; fetchOk is the way the service will settle the
\* getOrders promise of that refresh
HandleOrderDropResume(k, fetchOk) ==
    /\ k \in DOMAIN updates
    /\ IF updates[k].ok
       THEN /\ Len(fetches) < MaxFetches
            /\ fetches' = Append(fetches, Pending(fetchOk))
       ELSE UNCHANGED fetches
    /\ updates' = RemoveAt(updates, k)
    /\ UNCHANGED <<store, server, req, res, now, boardOrders, loading, dnd>>

\* the board as the clock and the service drive it
NextBoard ==
    \/ \E ok \in BOOLEAN : FetchOrders(ok)
    \/ \E k \in 1..MaxFetches : FetchOrdersResume(k)
    \/ Tick

SpecBoard == Init /\ [][NextBoard]_vars

\* the board as the user drives it, the clock standing still
NextDrag ==
    \/ \E ok \in BOOLEAN : FetchOrders(ok)
    \/ \E k \in 1..MaxFetches : FetchOrdersResume(k)
    \/ \E id \in 1..MaxOrders, currentStatus \in Statuses :
           BeginDrag(id, currentStatus)
    \/ \E column \in Statuses : Hover(column)
    \/ \E ok \in BOOLEAN : Drop(ok)
    \/ \E k \in 1..MaxUpdates, fetchOk \in BOOLEAN :
           HandleOrderDropResume(k, fetchOk)

SpecDrag == Init /\ [][NextDrag]_vars

\* C18: whenever the board displays its orders, the urgent flag of each is
\* (now - updated_at > 48 h and status is not 'complete') evaluated with
\* the clock of that moment.
C18_UrgentFlagCurrent ==
    ~loading
       => \A k \in DOMAIN boardOrders :
              boardOrders[k].hasUrgentIssue = CheckUrgentIssues(boardOrders[k])

\* C22: assign and bulk-assign leave the status and the priority of every
\* order as they were, leave every order they do not target unchanged, and
\* their answer reports neither a status nor a priority.
C22_AssignChangesOnlyAssignee ==
    /\ []((req.op \in {"assignOrder", "bulkAssignOrders"} /\ res.code = 200)
             => /\ "status" \notin DOMAIN res.body
                /\ "priority" \notin DOMAIN res.body)
    /\ [][req'.op \in {"assignOrder", "bulkAssignOrders"}
             => /\ OrderIds' = OrderIds
                /\ \A id \in OrderIds :
                      /\ orders'[id].status = orders[id].status
                      /\ orders'[id].priority = orders[id].priority
                      /\ ~Mutates(req', id) => orders'[id] = orders[id]
         ]_vars

\* C22 witness: with two orders stored, a manager bulk-assigned order 1 only
C22_Witness ==
    /\ req.op = "bulkAssignOrders"
    /\ res.code = 200
    /\ OrderIds = {1, 2}
    /\ req.body.order_ids = <<1>>

\* the completion rows of checklist instance cl for step st
RowsOf(rows, cl, st) ==
    {r \in rows : r.system_checklist_id = cl /\ r.step_id = st}

\* C23: every (checklist instance, step) pair has at most one completion
\* row, a checklist never has more completion rows than its template has
\* steps, and completeStep on a pair that already has a row succeeds and
\* updates that row without adding one.
C23_OneCompletionPerStep ==
    /\ [](\A r \in checklist_completions :
            /\ Cardinality(RowsOf(checklist_completions,
                                  r.system_checklist_id, r.step_id)) = 1
            /\ Cardinality({q \in checklist_completions :
                              q.system_checklist_id = r.system_checklist_id})
                 <= Cardinality(StepIds))
    /\ [][(/\ req'.op = "completeStep"
           /\ RowsOf(checklist_completions, req'.system_checklist_id,
                     req'.step_id) # {})
             => /\ res'.code = 200
                /\ Cardinality(checklist_completions')
                     = Cardinality(checklist_completions)
                /\ \A r \in RowsOf(checklist_completions',
                                   req'.system_checklist_id, req'.step_id) :
                       r.completed_at = STAMP
         ]_vars

\* C23 witness: completeStep was called again on a step whose row already
\* carried a QA check
C23_Witness ==
    /\ req.op = "completeStep"
    /\ res.code = 200
    /\ \E r \in RowsOf(checklist_completions, req.system_checklist_id,
                       req.step_id) : r.qa_checked_at # NULL

\* C24: every system belongs to one existing order and owns at most one
\* checklist instance.
C24_SystemHasOneOrderOneChecklist ==
    \A i \in SystemIds :
        /\ systems[i].order_id \in OrderIds
        /\ Cardinality(ChecklistsOf({i})) <= 1

----------------------------------------------------------------------------
(* The template under SQL statements: checklist_steps is an ordinary table *)
(* and system_checklists keeps only its template_id, no copy of the steps  *)

\* INSERT INTO checklist_steps (template_id, step_order, name, requires_qa)
InsertStep(requires_qa) ==
    /\ Cardinality(checklist_steps) < MaxSteps
    /\ checklist_steps' = checklist_steps \cup
           {[id |-> Cardinality(checklist_steps) + 1,
             requires_qa |-> requires_qa]}
    /\ req' = [op |-> "INSERT checklist_steps", requires_qa |-> requires_qa]
    /\ res' = [code |-> 0]
    /\ UNCHANGED <<orders, systems, system_checklists, checklist_completions,
                   activity_logs, inventory, ui, server>>

\* UPDATE checklist_steps SET requires_qa = ... WHERE id = st
UpdateStep(st, requires_qa) ==
    /\ checklist_steps' =
           {IF s.id = st THEN [s EXCEPT !.requires_qa = requires_qa] ELSE s :
               s \in checklist_steps}
    /\ req' = [op |-> "UPDATE checklist_steps", step_id |-> st,
               requires_qa |-> requires_qa]
    /\ res' = [code |-> 0]
    /\ UNCHANGED <<orders, systems, system_checklists, checklist_completions,
                   activity_logs, inventory, ui, server>>

NextTemplate ==
    \/ \E woo \in WooInputs : InsertOrder(woo)
    \/ \E o \in 1 .. MaxOrders : InsertSystem(o)
    \/ \E cl \in 1 .. MaxSystems, st \in StepIds, qa \in BOOLEAN :
           CompleteStep(cl, st, qa)
    \/ \E cl \in 1 .. MaxSystems, st \in StepIds, qa \in BOOLEAN :
           QaCheck(cl, st, qa)
    \/ \E qa \in BOOLEAN : InsertStep(qa)
    \/ \E st \in 1 .. MaxSteps, qa \in BOOLEAN : UpdateStep(st, qa)

SpecTemplate == Init /\ [][NextTemplate]_vars

\* the steps checklist instance cl must finish: those of its template, read
\* from checklist_steps (there is one template)
InstanceSteps(cl) == checklist_steps

\* C25: once a checklist instance exists, inserting or updating steps of
\* its template changes neither the steps the instance must finish nor
\* whether all of them are done.
C25_TemplateChangeDoesNotPropagate ==
    [][req'.op \in {"INSERT checklist_steps", "UPDATE checklist_steps"}
          => \A cl \in ChecklistIds :
                 /\ InstanceSteps(cl)' = InstanceSteps(cl)
                 /\ AllStepsDone(checklist_completions, cl)'
                      = AllStepsDone(checklist_completions, cl)
      ]_vars

----------------------------------------------------------------------------
(* Errors: the catch branch of the controllers and middleware/errorHandler *)

\* err.name values the error handler tells apart
KnownErrorNames ==
    {"ValidationError", "UnauthorizedError", "SequelizeValidationError",
     "SequelizeUniqueConstraintError"}

\* errors thrown while a request is served: err.status 0 stands for a
\* missing status and "" for a missing message (both falsy for ||)
ErrorInputs ==
    [name : KnownErrorNames \cup {"Error", "SequelizeConnectionError"},
     status : {0, 503},
     message : {"", "connect ECONNREFUSED 10.0.0.5:5432"}]

NodeEnvs == {"development", "production"}

\* where the error is thrown: inside the try block of a controller, or in
\* a middleware that passes it to next(err)
ThrowSites == {"controller", "middleware"}

\* the error object, not yet answered
Throw(err, site, env) ==
    /\ req' = [op |-> "error", err |-> err, site |-> site, NODE_ENV |-> env]
    /\ res' = [code |-> 0]
    /\ UNCHANGED <<store, ui, server>>

\* catch (error) { res.status(500).json({ error: error.message }) }
ControllerCatch ==
    /\ req.op = "error"
    /\ req.site = "controller"
    /\ res.code = 0
    /\ res' = [code |-> 500, body |-> [error |-> req.err.message]]
    /\ UNCHANGED <<store, ui, server, req>>

\* let status = err.status || 500, then the overrides by err.name
ErrorStatus(err) ==
    CASE err.name \in {"ValidationError", "SequelizeValidationError"} -> 400
      [] err.name = "UnauthorizedError" -> 401
      [] err.name = "SequelizeUniqueConstraintError" -> 409
      [] OTHER -> IF err.status # 0 THEN err.status ELSE 500

\* let message = err.message || 'Internal Server Error', then the overrides
ErrorMessage(err) ==
    CASE err.name = "ValidationError" -> "Validation Error"
      [] err.name = "UnauthorizedError" -> "Unauthorized"
      [] err.name = "SequelizeValidationError" -> "Database Validation Error"
      [] err.name = "SequelizeUniqueConstraintError" -> "Duplicate Entry"
      [] OTHER -> IF err.message # "" THEN err.message
                  ELSE "Internal Server Error"

\* res.status(status).json({ error: { message, status, ...stack } })
errorHandler ==
    /\ req.op = "error"
    /\ req.site = "middleware"
    /\ res.code = 0
    /\ res' = [code |-> ErrorStatus(req.err),
               body |-> [error |->
                   IF req.NODE_ENV = "development"
                   THEN [message |-> ErrorMessage(req.err),
                         status |-> ErrorStatus(req.err), stack |-> "err.stack"]
                   ELSE [message |-> ErrorMessage(req.err),
                         status |-> ErrorStatus(req.err)]]]
    /\ UNCHANGED <<store, ui, server, req>>

NextErrors ==
    \/ \E err \in ErrorInputs, site \in ThrowSites, env \in NodeEnvs :
           Throw(err, site, env)
    \/ ControllerCatch
    \/ errorHandler

SpecErrors == Init /\ [][NextErrors]_vars

\* C21: an unexpected error (one the error handler has no case for) is
\* answered with status 500 and the generic message, never with the text of
\* the original error.
C21_UnexpectedErrorAnsweredGenerically ==
    (/\ req.op = "error"
     /\ res.code # 0
     /\ req.err.name \notin KnownErrorNames)
        => /\ res.code = 500
           /\ req.site = "controller"
                => res.body.error = "Internal Server Error"
           /\ req.site = "middleware"
                => res.body.error.message = "Internal Server Error"

----------------------------------------------------------------------------
(* The server process (backend/src/index.js): startServer, the signal      *)
(* handlers, and the middleware each mounted path runs                      *)

\* await sequelize.authenticate() resolved; NODE_ENV is read next and, in
\* development, sequelize.sync is awaited; otherwise app.listen is called
AuthenticateResolves(env) ==
    /\ server.pc = "authenticate"
    /\ server' = IF env = "development"
                 THEN [server EXCEPT !.pc = "sync", !.NODE_ENV = env]
                 ELSE [server EXCEPT !.pc = "running", !.NODE_ENV = env,
                                     !.check = "ok", !.listening = TRUE]
    /\ UNCHANGED <<store, ui, req, res>>

\* a startServer whose catch branch logs the error and listens anyway
AuthenticateRejectsListens ==
    /\ server.pc = "authenticate"
    /\ server' = [server EXCEPT !.pc = "running", !.check = "failed",
                                !.listening = TRUE]
    /\ UNCHANGED <<store, ui, req, res>>

\* await sequelize.authenticate() rejected: catch, process.exit(1)
AuthenticateRejects ==
    /\ server.pc = "authenticate"
    /\ server' = [server EXCEPT !.pc = "exited", !.check = "failed",
                                !.exit_code = 1]
    /\ UNCHANGED <<store, ui, req, res>>

\* await sequelize.sync({ alter: true }) resolved: app.listen(PORT)
SyncResolves ==
    /\ server.pc = "sync"
    /\ server' = [server EXCEPT !.pc = "running", !.check = "ok",
                                !.listening = TRUE]
    /\ UNCHANGED <<store, ui, req, res>>

\* await sequelize.sync({ alter: true }) rejected: catch, process.exit(1)
SyncRejects ==
    /\ server.pc = "sync"
    /\ server' = [server EXCEPT !.pc = "exited", !.check = "failed",
                                !.exit_code = 1]
    /\ UNCHANGED <<store, ui, req, res>>

\* SIGTERM or SIGINT: the handler awaits sequelize.close()
Signal ==
    /\ server.pc # "exited"
    /\ ~server.closing
    /\ server' = [server EXCEPT !.closing = TRUE]
    /\ UNCHANGED <<store, ui, req, res>>

\* sequelize.close() resolved in the signal handler: process.exit(0)
CloseResolves ==
    /\ server.pc # "exited"
    /\ server.closing
    /\ server' = [server EXCEPT !.pc = "exited", !.exit_code = 0]
    /\ UNCHANGED <<store, ui, req, res>>

Paths ==
    {"/health", "/api/auth", "/api/orders", "/api/systems", "/api/checklists",
     "/api/users", "/api/analytics", "/api/integrations"}

\* the paths the claim lists as requiring authentication
ProtectedPaths == Paths \ {"/health", "/api/auth"}

OrderOps ==
    {"getOrders", "getOrderById", "createOrder", "updateOrderStatus",
     "assignOrder", "updatePriority", "getOrderSystems", "completeOrder",
     "bulkAssignOrders"}

\* /api/orders mounted without authenticate
MountOrdersOpen(path) ==
    CASE path = "/health" -> <<"handler">>
      [] path \in {"/api/auth", "/api/orders"} -> <<"router">>
      [] OTHER -> <<"authenticate", "router">>

\* what app.get / app.use registered for the path, in order
Mount(path) ==
    CASE path = "/health" -> <<"handler">>
      [] path = "/api/auth" -> <<"router">>
      [] OTHER -> <<"authenticate", "router">>

\* what the orders router registered for the route, in order
RouteStack(op) ==
    IF op \in GatedOps THEN <<"authorize", "validators", "controller">>
    ELSE IF op \in ValidatedOps THEN <<"validators", "controller">>
    ELSE <<"controller">>

\* the functions a request to the path passes through, the orders router
\* expanded to the stack of the route
Chain(path, op) ==
    IF path = "/api/orders"
    THEN SubSeq(Mount(path), 1, Len(Mount(path)) - 1) \o RouteStack(op)
    ELSE Mount(path)

\* a request is in flight and its next function is f
NextIs(f) ==
    /\ server.pc # "exited"
    /\ "path" \in DOMAIN req
    /\ res.code = 0
    /\ Chain(req.path, req.op)[Len(req.ran) + 1] = f

\* the function ran and called next()
Passes(f) ==
    /\ req' = [req EXCEPT !.ran = Append(@, f)]
    /\ UNCHANGED res

\* the listening server accepts a request once the previous one is answered
Receive(path, op, credentials, role) ==
    /\ server.listening
    /\ server.pc # "exited"
    /\ req.op = "none" \/ res.code # 0
    /\ req' = [op |-> op, path |-> path, credentials |-> credentials,
               role |-> role, ran |-> << >>]
    /\ res' = [code |-> 0]
    /\ UNCHANGED <<store, ui, server>>

\* authenticate: calls next() for valid credentials, answers 401 otherwise
RunAuthenticate ==
    /\ NextIs("authenticate")
    /\ IF req.credentials
       THEN Passes("authenticate")
       ELSE /\ res' = [code |-> 401]
            /\ UNCHANGED req
    /\ UNCHANGED <<store, ui, server>>

\* authorize(['manager', 'admin'])
RunAuthorize ==
    /\ NextIs("authorize")
    /\ IF Authorize(RouteRoles(req.op), req.role)
       THEN Passes("authorize")
       ELSE /\ res' = [code |-> 403]
            /\ UNCHANGED req
    /\ UNCHANGED <<store, ui, server>>

\* the express-validator chains record their errors and call next()
RunValidators ==
    /\ NextIs("validators")
    /\ Passes("validators")
    /\ UNCHANGED <<store, ui, server>>

\* the last function of the chain answers the request
RunHandler ==
    /\ \E f \in {"handler", "router", "controller"} :
          /\ NextIs(f)
          /\ req' = [req EXCEPT !.ran = Append(@, f)]
    /\ res' = [code |-> 200]
    /\ UNCHANGED <<store, ui, server>>

NextApp ==
    \/ \E env \in NodeEnvs : AuthenticateResolves(env)
    \/ AuthenticateRejects
    \/ SyncResolves
    \/ SyncRejects
    \/ Signal
    \/ CloseResolves
    \/ \E path \in Paths \ {"/api/orders"}, credentials \in BOOLEAN,
          role \in Roles : Receive(path, "handler", credentials, role)
    \/ \E op \in OrderOps, credentials \in BOOLEAN, role \in Roles :
           Receive("/api/orders", op, credentials, role)
    \/ RunAuthenticate
    \/ RunAuthorize
    \/ RunValidators
    \/ RunHandler

SpecApp == Init /\ [][NextApp]_vars

\* a route handler (controller, or router of a path) ran for the request
HandlerRan ==
    \E k \in DOMAIN req.ran : req.ran[k] \in {"handler", "router", "controller"}

\* C26: on the six protected paths a handler runs only after authenticate
\* ran first and passed, and a request answered without it was refused with
\* 401; on the role-gated order routes authorize ran and passed before the
\* controller; /health and /api/auth are answered without authenticate.
C26_AuthenticateBeforeHandlers ==
    "path" \in DOMAIN req
       => /\ (req.path \in ProtectedPaths /\ HandlerRan)
                => /\ req.credentials
                   /\ req.ran[1] = "authenticate"
          /\ (req.path \in ProtectedPaths /\ res.code # 0 /\ ~req.credentials)
                => /\ res.code = 401
                   /\ req.ran = << >>
          /\ (req.path = "/api/orders" /\ req.op \in GatedOps /\ HandlerRan)
                => /\ Authorize(RouteRoles(req.op), req.role)
                   /\ \E i, j \in DOMAIN req.ran :
                         /\ i < j
                         /\ req.ran[i] = "authorize"
                         /\ req.ran[j] = "controller"
          /\ (req.path \in {"/health", "/api/auth"} /\ res.code # 0)
                => /\ res.code = 200
                   /\ \A k \in DOMAIN req.ran : req.ran[k] # "authenticate"

\* C26 witness: an assign request of a manager went through authenticate,
\* authorize and the validators to the controller
C26_Witness ==
    /\ "path" \in DOMAIN req
    /\ req.op = "assignOrder"
    /\ req.role = "manager"
    /\ res.code = 200
    /\ req.ran = <<"authenticate", "authorize", "validators", "controller">>

----------------------------------------------------------------------------
(* Drag and drop, and overlapping refreshes, on the Kanban board           *)

\* C28: releasing a card over the column of the status in its drag item
\* issues no updateOrderStatus call; releasing it over any other column
\* issues exactly one, with the id of the item and the status of that
\* column, whatever the two statuses are.
C28_DropCallsUpdateOnlyOnOtherColumn ==
    [][(dnd # NoDrag /\ dnd.over # NULL /\ dnd' = NoDrag)
          => IF dnd.currentStatus = dnd.over
             THEN updates' = updates
             ELSE \E ok \in BOOLEAN :
                     updates' = Append(updates, [orderId |-> dnd.id,
                                                 status |-> dnd.over,
                                                 ok |-> ok])
      ]_vars

\* C28 witness: a card was dropped on the 'complete' column and the one
\* call for it is pending
C28_Witness ==
    /\ dnd = NoDrag
    /\ \E k \in DOMAIN updates :
          /\ updates[k].orderId = 1
          /\ updates[k].status = "complete"

\* C29: handleOrderDrop starts no refresh while its updateOrderStatus call
\* is pending; when the call resolved it starts one fetchOrders, and when
\* it rejected it starts none; in both cases it leaves the orders state and
\* loading as they were.
C29_RefreshOnlyAfterUpdateResolved ==
    [][/\ Len(updates') > Len(updates) => fetches' = fetches
       /\ \A k \in DOMAIN updates :
             updates' = RemoveAt(updates, k)
                => /\ boardOrders' = boardOrders
                   /\ loading' = loading
                   /\ IF updates[k].ok
                      THEN \E fetchOk \in BOOLEAN :
                              fetches' = Append(fetches, Pending(fetchOk))
                      ELSE fetches' = fetches
      ]_vars

\* C29 witness: the board shows its orders, no refresh is in flight, and an
\* updateOrderStatus call that will reject is pending
C29_Witness ==
    /\ ~loading
    /\ boardOrders # << >>
    /\ fetches = << >>
    /\ \E k \in DOMAIN updates : ~updates[k].ok

\* C30: a fetchOrders call that settles sets loading to false; if it failed
\* the orders state stays as it was, if it succeeded the orders state
\* becomes its response (with the flags), whichever call it was among the
\* pending ones; nothing else changes the orders state, and loading never
\* goes back to true.
C30_OverlappingFetches ==
    [][/\ ~loading => ~loading'
       /\ \A k \in DOMAIN fetches :
             fetches' = RemoveAt(fetches, k)
                => /\ ~loading'
                   /\ boardOrders' =
                         IF fetches[k].ok
                         THEN [i \in DOMAIN fetches[k].data |->
                                  WithFlags(fetches[k].data[i])]
                         ELSE boardOrders
       /\ boardOrders' # boardOrders
             => \E k \in DOMAIN fetches :
                   /\ fetches[k].ok
                   /\ fetches' = RemoveAt(fetches, k)
      ]_vars

\* C30 witness: of two overlapping calls the later one resolved first: the
\* board shows its response while the earlier call is still pending
C30_Witness ==
    /\ ~loading
    /\ boardOrders # << >>
    /\ \E k \in DOMAIN fetches :
          /\ fetches[k].ok
          /\ fetches[k].data[1].updated_at < boardOrders[1].updated_at

====
